---- MODULE Spec2Model ----
(***************************************************************************)
(* Gesture-driven scene-mode state machine of the Christmas experience:    *)
(* the hand-tracking service (start-up, inference loop, stop), the         *)
(* gesture callback onHandData, the animation tick (pinch hit test and     *)
(* particle targets), photo ingestion and the effect's teardown.           *)
(* Spec follows all of them; ClassifierSpec applies processResult to one   *)
(* detection, FieldSpec follows the numbers of the particle update and     *)
(* SlotSpec the history of the sample slot.                                *)
(*                                                                         *)
(* Lengths are in hundredths of a normalized unit: 0.4 is 40, 0.05 is 5.   *)
(* JavaScript runs every callback to completion on one thread, so each     *)
(* callback is one action.                                                 *)
(***************************************************************************)
EXTENDS Integers, Sequences, FiniteSets, TLC

\* ---------------------------------------------------------------- bounds
\* Decorative particles created at start-up (CONFIG.particles.count is 800).
NumDecor == 1
\* Images a session can hold (persisted plus uploaded).
MaxImages == 2
\* requestAnimationFrame ids handed out in a behaviour.
MaxFrameId == 4
\* Largest value of video.currentTime.
MaxVideoTime == 1
\* Longest list of meshes a pinch ray passes through.
MaxRayLen == 1
\* Ticks whose numbers are followed in FieldSpec.
MaxFieldTicks == 1

\* ------------------------------------------------------ program constants
\* data.pinchDistance > 0.4 leaves FOCUS on an OPEN sample.
FocusExitPinch == 40
\* pinchDist < 0.05 is a pinch.
PinchThreshold == 5
\* distToWrist < 0.15 is a folded finger.
FoldedThreshold == 15
\* foldedCount >= 3 is a fist.
FoldedFingers == 3
\* private lastVideoTime = -1
InitialLastVideoTime == -1

\* ----------------------------------------------------------- scene graph
NoHandle == [kind |-> "none", id |-> 0]
Scene == [kind |-> "scene", id |-> 0]
MainGroup == [kind |-> "mainGroup", id |-> 0]
PhotoGroup == [kind |-> "photoGroup", id |-> 0]
DecorMesh(i) == [kind |-> "decor", id |-> i]
PhotoMesh(k) == [kind |-> "photo", id |-> k]
FrameMesh(k) == [kind |-> "frame", id |-> k]
HitMesh(k) == [kind |-> "hit", id |-> k]

ImageIds == 1..MaxImages
DecorIds == 1..NumDecor

Meshes ==
  {DecorMesh(i) : i \in DecorIds}
    \cup {PhotoMesh(k) : k \in ImageIds}
    \cup {FrameMesh(k) : k \in ImageIds}
    \cup {HitMesh(k) : k \in ImageIds}

Handles == {Scene, MainGroup, PhotoGroup} \cup Meshes

VARIABLES
  mode,                 \* stateRef.current.mode
  focusTarget,          \* stateRef.current.focusTarget (NoHandle is null)
  handData,             \* stateRef.current.handData
  particles,            \* stateRef.current.particles
  parent,               \* Object3D.parent of every handle (NoHandle is null)
  frames,               \* scheduled requestAnimationFrame callbacks
  nextFrameId,          \* the id the next requestAnimationFrame returns
  animId,               \* const animId of the mount effect
  mounted,              \* the mount effect's cleanup has not run
  handLandmarker,       \* HandTrackingService.handLandmarker is set
  initState,            \* the promise of initialize()
  video,                \* HandTrackingService.video is set
  camera,               \* getUserMedia and the stream's tracks
  loadedFired,          \* the video's loadeddata event has fired
  videoTime,            \* video.currentTime
  lastVideoTime,        \* HandTrackingService.lastVideoTime
  rafId,                \* HandTrackingService.rafId
  cameraReady,          \* App's cameraReady state
  errorMsg,             \* App's errorMsg state is set
  errorCalls,           \* the calls of the onError prop so far
  isDbLoaded,           \* App's isDbLoaded state
  uploadedImages,       \* App's uploadedImages: the images' ids, in list order
  effectPending,        \* uploadedImages changed and its effect has not run
  processedImagesCount, \* processedImagesCount.current
  loading,              \* images whose decode is in flight
  failed,               \* images whose decode has failed
  field,                \* the numbers of the particle field (FieldSpec)
  calc,                 \* a function's argument and result (ClassifierSpec)
  last                  \* the step just taken: its callback, the mode it found,
                        \* and for a tick whether its ray met a decorative
                        \* mesh and whether it met a part of a photo, the
                        \* hit test's outcome and the target it gave each
                        \* particle

vars ==
  <<mode, focusTarget, handData, particles, parent, frames,
    nextFrameId, animId, mounted, handLandmarker, initState, video, camera,
    loadedFired, videoTime, lastVideoTime, rafId, cameraReady, errorMsg,
    errorCalls, isDbLoaded, uploadedImages, effectPending,
    processedImagesCount, loading, failed, field, calc, last>>

sceneVars == <<mode, focusTarget, handData, particles, parent>>
frameVars == <<frames, nextFrameId, animId>>
serviceVars ==
  <<handLandmarker, initState, video, camera, loadedFired, videoTime,
    lastVideoTime, rafId>>
appVars ==
  <<cameraReady, errorMsg, errorCalls, isDbLoaded, uploadedImages,
    effectPending>>
ingestVars == <<processedImagesCount, loading, failed>>
auxVars == <<field, calc>>

\* ------------------------------------------------- gesture classification
\* Fingertip coordinates, thumb-to-index distances and fingertip-to-wrist
\* distances the landmark model can report.
Coords == {50}
PinchDists == {3, 5, 40, 41}
\* Distances of the index, middle, ring and pinky tips to the wrist: no, two,
\* three and four fingers folded.
FingerPoses ==
  {<<20, 20, 20, 20>>, <<10, 20, 10, 20>>, <<10, 10, 20, 10>>, <<10, 10, 10, 10>>}

Hands ==
  [indexX : Coords, indexY : Coords, pinchDist : PinchDists,
   fingerDist : FingerPoses]

\* A HandLandmarkerResult: landmarks holds at most one hand (numHands: 1).
DetectResults == {[landmarks |-> <<>>]} \cup {[landmarks |-> <<h>>] : h \in Hands}

FoldedCount(hand) ==
  Cardinality({f \in 1..4 : hand.fingerDist[f] < FoldedThreshold})

\* A variant of processResult that tests the pinch before the folded
\* fingers.
ProcessResult_pinchFirst(result) ==
  IF Len(result.landmarks) > 0
    THEN LET hand == result.landmarks[1]
         IN [x |-> 100 - hand.indexX, y |-> hand.indexY,
             gesture |-> IF hand.pinchDist < PinchThreshold THEN "PINCH"
                         ELSE IF FoldedCount(hand) >= FoldedFingers THEN "CLOSED"
                         ELSE "OPEN",
             pinchDistance |-> hand.pinchDist]
    ELSE [x |-> 50, y |-> 50, gesture |-> "NONE", pinchDistance |-> 100]

\* processResult: the HandData handed to onHandData.
ProcessResult(result) ==
  IF Len(result.landmarks) > 0
    THEN LET hand == result.landmarks[1]
             isPinching == hand.pinchDist < PinchThreshold
             gesture ==
               IF FoldedCount(hand) >= FoldedFingers THEN "CLOSED"
               ELSE IF isPinching THEN "PINCH"
               ELSE "OPEN"
         IN [x |-> 100 - hand.indexX, y |-> hand.indexY, gesture |-> gesture,
             pinchDistance |-> hand.pinchDist]
    ELSE [x |-> 50, y |-> 50, gesture |-> "NONE", pinchDistance |-> 100]

\* ------------------------------------------------------ mode state machine
\* Variants of onHandData with one slip each: the OPEN branch forgets to
\* clear the focus target; the hysteresis guards the CLOSED branch too; the
\* exit test is >= 0.4; a NONE sample is treated as an open hand.
OnHandData_openKeepsTarget(currentMode, currentFocus, data) ==
  IF data.gesture = "CLOSED"
    THEN [mode |-> "TREE", focusTarget |-> NoHandle]
  ELSE IF data.gesture = "OPEN"
            /\ (currentMode # "FOCUS" \/ data.pinchDistance > FocusExitPinch)
    THEN [mode |-> "SCATTER", focusTarget |-> currentFocus]
  ELSE [mode |-> currentMode, focusTarget |-> currentFocus]

OnHandData_closedHeldByPinch(currentMode, currentFocus, data) ==
  IF data.gesture = "CLOSED"
       /\ (currentMode # "FOCUS" \/ data.pinchDistance > FocusExitPinch)
    THEN [mode |-> "TREE", focusTarget |-> NoHandle]
  ELSE IF data.gesture = "OPEN"
            /\ (currentMode # "FOCUS" \/ data.pinchDistance > FocusExitPinch)
    THEN [mode |-> "SCATTER", focusTarget |-> NoHandle]
  ELSE [mode |-> currentMode, focusTarget |-> currentFocus]

OnHandData_exitAtThreshold(currentMode, currentFocus, data) ==
  IF data.gesture = "CLOSED"
    THEN [mode |-> "TREE", focusTarget |-> NoHandle]
  ELSE IF data.gesture = "OPEN"
            /\ (currentMode # "FOCUS" \/ data.pinchDistance >= FocusExitPinch)
    THEN [mode |-> "SCATTER", focusTarget |-> NoHandle]
  ELSE [mode |-> currentMode, focusTarget |-> currentFocus]

OnHandData_noneScatters(currentMode, currentFocus, data) ==
  IF data.gesture = "CLOSED"
    THEN [mode |-> "TREE", focusTarget |-> NoHandle]
  ELSE IF data.gesture \in {"OPEN", "NONE"}
            /\ (currentMode # "FOCUS" \/ data.pinchDistance > FocusExitPinch)
    THEN [mode |-> "SCATTER", focusTarget |-> NoHandle]
  ELSE [mode |-> currentMode, focusTarget |-> currentFocus]

\* onHandData's update of mode and focusTarget, from the mode and focus
\* target it finds and the sample it is given.
OnHandData(currentMode, currentFocus, data) ==
  IF data.gesture = "CLOSED"
    THEN [mode |-> "TREE", focusTarget |-> NoHandle]
  ELSE IF data.gesture = "OPEN"
            /\ (currentMode # "FOCUS" \/ data.pinchDistance > FocusExitPinch)
    THEN [mode |-> "SCATTER", focusTarget |-> NoHandle]
  ELSE [mode |-> currentMode, focusTarget |-> currentFocus]

\* ---------------------------------------------------------------- hit test
ParticleMeshes(parts) == {parts[i].mesh : i \in DOMAIN parts}

\* particles.filter(p => p.isPhoto).map(p => p.mesh)
PhotoMeshes(parts) == {parts[i].mesh : i \in {j \in DOMAIN parts : parts[j].isPhoto}}

\* h is one of objs or a descendant of one: what a recursive raycast tests.
RECURSIVE InSubtree(_, _, _)
InSubtree(h, objs, par) ==
  \/ h \in objs
  \/ par[h] # NoHandle /\ InSubtree(par[h], objs, par)

\* raycaster.intersectObjects(objs, true): of the meshes the ray passes
\* through, nearest first, those under objs.
IntersectObjects(objs, ray, par) ==
  SelectSeq(ray, LAMBDA h : InSubtree(h, objs, par))

\* The while loop that climbs from the hit object: every branch of its body
\* moves to target.parent, until the parent is absent, mainGroup or
\* photoGroup.
RECURSIVE ResolveRoot(_, _)
ResolveRoot(target, par) ==
  IF par[target] # NoHandle /\ par[target] # MainGroup /\ par[target] # PhotoGroup
    THEN ResolveRoot(par[target], par)
    ELSE target

\* A variant that raycasts against every particle's mesh instead of the
\* photos'.
HitTest_allParticles(ray, parts, par) ==
  LET intersects == IntersectObjects(ParticleMeshes(parts), ray, par)
  IN IF Len(intersects) > 0
       THEN LET target == ResolveRoot(intersects[1], par)
            IN IF target \in ParticleMeshes(parts)
                 THEN [kind |-> "resolved", mesh |-> target]
                 ELSE [kind |-> "unresolved", mesh |-> NoHandle]
       ELSE [kind |-> "none", mesh |-> NoHandle]

\* The raycasting block of animate, entered on a pinch with no focus target.
HitTest(ray, parts, par) ==
  LET intersects == IntersectObjects(PhotoMeshes(parts), ray, par)
  IN IF Len(intersects) > 0
       THEN LET target == ResolveRoot(intersects[1], par)
            IN IF target \in ParticleMeshes(parts)
                 THEN [kind |-> "resolved", mesh |-> target]
                 ELSE [kind |-> "unresolved", mesh |-> NoHandle]
       ELSE [kind |-> "none", mesh |-> NoHandle]

\* Variants of the condition: without the focus-target test, and without
\* the gesture test.
ShouldHitTest_ignoringFocus(data, focus) == data.gesture = "PINCH"

ShouldHitTest_anyGesture(data, focus) == focus = NoHandle

\* The condition under which animate runs the raycasting block.
ShouldHitTest(data, focus) == data.gesture = "PINCH" /\ focus = NoHandle

\* -------------------------------------------------------- particle targets
\* The branch of the particle update that particle p takes, given the mode
\* and focus target in stateRef.current after the hit test.
\* A variant in which FOCUS disperses the decorative particles only.
TargetOf_photosStay(p, m, focus) ==
  IF m = "TREE" THEN "tree"
  ELSE IF m = "SCATTER" THEN "scatter"
  ELSE IF p.mesh = focus THEN "focus"
  ELSE IF p.isPhoto THEN "scatter"
  ELSE "dispersed"

TargetOf(p, m, focus) ==
  IF m = "TREE" THEN "tree"
  ELSE IF m = "SCATTER" THEN "scatter"
  ELSE IF p.mesh = focus THEN "focus"
  ELSE "dispersed"

ParticleTargets(parts, m, focus) ==
  [i \in DOMAIN parts |-> TargetOf(parts[i], m, focus)]

\* ------------------------------------------------------------------- Init
\* The state once the component's effects have run: the scene is built with
\* its decorative particles under mainGroup, initialize() is in flight, the
\* first animation frame is requested.
InitialParent ==
  [h \in Handles |->
     IF h = MainGroup THEN Scene
     ELSE IF h = PhotoGroup THEN MainGroup
     ELSE IF h.kind = "decor" THEN MainGroup
     ELSE NoHandle]

\* The particle field's numbers and the function scratch are not followed
\* in this specification.
NoField == [smoothedPinch |-> 0]
NoCalc == [input |-> <<>>]

InitialHandData == [x |-> 50, y |-> 50, gesture |-> "NONE", pinchDistance |-> 100]

\* The record of a step that is neither a delivered sample nor a tick.
OtherStep ==
  [op |-> "other", mode |-> "n/a", decorOnRay |-> FALSE, photoOnRay |-> FALSE,
   hit |-> "n/a", targets |-> <<>>]

\* The record of a step in which onHandData took a sample.
SampleStep ==
  [op |-> "sample", mode |-> mode, decorOnRay |-> FALSE, photoOnRay |-> FALSE,
   hit |-> "n/a", targets |-> <<>>]

\* The record of an iteration of the inference loop that ran no detection.
IdleStep ==
  [op |-> "idle", mode |-> "n/a", decorOnRay |-> FALSE, photoOnRay |-> FALSE,
   hit |-> "n/a", targets |-> <<>>]

MountedCore ==
  /\ mode = "SCATTER"
  /\ focusTarget = NoHandle
  /\ handData = InitialHandData
  /\ particles = [i \in DecorIds |-> [mesh |-> DecorMesh(i), isPhoto |-> FALSE]]
  /\ parent = InitialParent
  /\ frames = {[id |-> 1, cb |-> "animate"]}
  /\ nextFrameId = 2
  /\ animId = 1
  /\ mounted = TRUE
  /\ handLandmarker = FALSE
  /\ initState = "pending"
  /\ video = FALSE
  /\ camera = "idle"
  /\ loadedFired = FALSE
  /\ videoTime = 0
  /\ lastVideoTime = InitialLastVideoTime
  /\ rafId = 0
  /\ cameraReady = FALSE
  /\ errorMsg = FALSE
  /\ errorCalls = 0
  /\ failed = {}
  /\ last = OtherStep

\* The state after construction: the store has not been read.
Mounted ==
  /\ MountedCore
  /\ isDbLoaded = FALSE
  /\ uploadedImages = <<>>
  /\ effectPending = FALSE
  /\ processedImagesCount = 0
  /\ loading = {}

\* The state after the store gave its images and the effect on
\* uploadedImages started their decodes.
Ingesting ==
  /\ MountedCore
  /\ isDbLoaded = TRUE
  /\ uploadedImages = [i \in ImageIds |-> i]
  /\ effectPending = FALSE
  /\ processedImagesCount = MaxImages
  /\ loading = ImageIds

Init ==
  /\ Mounted
  /\ field = NoField
  /\ calc = NoCalc

\* ------------------------------------------------- hand-tracking service
\* initialize() resolves; the then-callback calls startWebcam, which keeps
\* the video element and asks for the camera, and then onCameraReady.
InitializeResolves ==
  /\ initState = "pending"
  /\ initState' = "resolved"
  /\ handLandmarker' = TRUE
  /\ video' = TRUE
  /\ camera' = "requested"
  /\ cameraReady' = TRUE
  /\ last' = OtherStep
  /\ UNCHANGED <<sceneVars, frameVars, mounted, loadedFired, videoTime,
                 lastVideoTime, rafId, errorMsg, errorCalls, isDbLoaded,
                 uploadedImages, effectPending, ingestVars, auxVars>>

\* A variant whose callback runs on rejection as on success: it reports and
\* still starts the webcam and signals camera-ready.
InitializeRejects_startsWebcam ==
  /\ initState = "pending"
  /\ initState' = "rejected"
  /\ errorMsg' = TRUE
  /\ errorCalls' = errorCalls + 1
  /\ video' = TRUE
  /\ camera' = "requested"
  /\ cameraReady' = TRUE
  /\ last' = OtherStep
  /\ UNCHANGED <<sceneVars, frameVars, mounted, handLandmarker, loadedFired,
                 videoTime, lastVideoTime, rafId, isDbLoaded, uploadedImages,
                 effectPending, ingestVars, auxVars>>

\* initialize() rejects; the catch-callback reports through onError.
InitializeRejects ==
  /\ initState = "pending"
  /\ initState' = "rejected"
  /\ errorMsg' = TRUE
  /\ errorCalls' = errorCalls + 1
  /\ last' = OtherStep
  /\ UNCHANGED <<sceneVars, frameVars, mounted, handLandmarker, video, camera,
                 loadedFired, videoTime, lastVideoTime, rafId, cameraReady,
                 isDbLoaded, uploadedImages, effectPending, ingestVars,
                 auxVars>>

\* getUserMedia resolves: startWebcam attaches the stream to the video and
\* listens for loadeddata.
GetUserMediaResolves ==
  /\ camera = "requested"
  /\ camera' = "live"
  /\ last' = OtherStep
  /\ UNCHANGED <<sceneVars, frameVars, mounted, handLandmarker, initState,
                 video, loadedFired, videoTime, lastVideoTime, rafId, appVars,
                 ingestVars, auxVars>>

\* getUserMedia rejects: startWebcam's promise rejects and nobody handles it.
GetUserMediaRejects ==
  /\ camera = "requested"
  /\ camera' = "denied"
  /\ last' = OtherStep
  /\ UNCHANGED <<sceneVars, frameVars, mounted, handLandmarker, initState,
                 video, loadedFired, videoTime, lastVideoTime, rafId, appVars,
                 ingestVars, auxVars>>

\* The live stream shows a new video frame.
VideoAdvance ==
  /\ camera = "live"
  /\ videoTime < MaxVideoTime
  /\ videoTime' = videoTime + 1
  /\ last' = OtherStep
  /\ UNCHANGED <<sceneVars, frameVars, mounted, handLandmarker, initState,
                 video, camera, loadedFired, lastVideoTime, rafId, appVars,
                 ingestVars, auxVars>>

\* A variant of the slot that holds a pinch until a tick has read it.
LatestSample_holdsPinch(slot, data) ==
  IF slot.gesture = "PINCH" /\ data.gesture # "CLOSED" THEN slot ELSE data

\* onHandData's first statement: the sample replaces the one in the slot.
LatestSample(slot, data) == data

\* A variant that runs the detection in every iteration.
ShouldDetect_everyIteration(currentTime, lastTime) == TRUE

\* predictWebcam's test for a video frame it has not seen.
ShouldDetect(currentTime, lastTime) == currentTime # lastTime

\* The body of predictWebcam, run with the frames left after the caller's
\* own frame is taken: on a new video time the detection's sample goes to
\* onHandData, and in every case the loop requests its next frame.
PredictWebcam(result, rest) ==
  /\ nextFrameId <= MaxFrameId
  /\ IF handLandmarker /\ video
       THEN /\ IF ShouldDetect(videoTime, lastVideoTime)
                 THEN LET data == ProcessResult(result)
                          next == OnHandData(mode, focusTarget, data)
                      IN /\ lastVideoTime' = videoTime
                         /\ handData' = LatestSample(handData, data)
                         /\ mode' = next.mode
                         /\ focusTarget' = next.focusTarget
                         /\ last' = SampleStep
                 ELSE /\ last' = IdleStep
                      /\ UNCHANGED <<lastVideoTime, handData, mode, focusTarget>>
            /\ rafId' = nextFrameId
            /\ frames' = rest \cup {[id |-> nextFrameId, cb |-> "predictWebcam"]}
            /\ nextFrameId' = nextFrameId + 1
       ELSE /\ last' = OtherStep
            /\ frames' = rest
            /\ UNCHANGED <<lastVideoTime, handData, mode, focusTarget, rafId,
                           nextFrameId>>
  /\ UNCHANGED <<particles, parent, animId, mounted, handLandmarker,
                 initState, video, camera, videoTime, appVars, ingestVars,
                 auxVars>>

\* The video's loadeddata event: the listener starts the inference loop.
LoadedData ==
  /\ camera = "live"
  /\ ~loadedFired
  /\ loadedFired' = TRUE
  /\ \E result \in DetectResults : PredictWebcam(result, frames)

\* The frame callback of the inference loop.
PredictFrame ==
  \E f \in frames :
    /\ f.cb = "predictWebcam"
    /\ UNCHANGED loadedFired
    /\ \E result \in DetectResults : PredictWebcam(result, frames \ {f})

\* HandTrackingService.stop: cancels the frame whose id is in rafId and
\* stops the tracks of the stream attached to the video, if there is one.
StopFrames(fs) == {f \in fs : f.id # rafId}

StopCamera == IF video /\ camera = "live" THEN "stopped" ELSE camera

\* ---------------------------------------------------------- animation tick
\* The meshes attached under the scene: what a ray through the scene can hit.
Attached(par) == {h \in Meshes : InSubtree(h, {Scene}, par)}

\* The meshes a ray passes through, nearest first.
Rays(par) ==
  {ray \in UNION {[1..n -> Attached(par)] : n \in 0..MaxRayLen} :
     \A i, j \in DOMAIN ray : i # j => ray[i] # ray[j]}

\* A variant that enters FOCUS outside the test for a found particle.
AfterHitTest_focusWithoutParticle(m, focus, hit) ==
  IF hit.kind # "skipped"
    THEN [mode |-> "FOCUS", focusTarget |-> hit.mesh]
    ELSE [mode |-> m, focusTarget |-> focus]

\* The mode and focus target animate leaves in stateRef.current after its
\* raycasting block, which found outcome hit.
AfterHitTest(m, focus, hit) ==
  IF hit.kind = "resolved"
    THEN [mode |-> "FOCUS", focusTarget |-> hit.mesh]
    ELSE [mode |-> m, focusTarget |-> focus]

\* animate: requests the next frame first, then reads stateRef.current,
\* runs the hit test on a pinch with no focus target, and gives every
\* particle its target for the mode the hit test left.
Animate(ray) ==
  \E f \in frames :
    /\ f.cb = "animate"
    /\ nextFrameId <= MaxFrameId
    /\ frames' = (frames \ {f}) \cup {[id |-> nextFrameId, cb |-> "animate"]}
    /\ nextFrameId' = nextFrameId + 1
    /\ LET hit == IF ShouldHitTest(handData, focusTarget)
                    THEN HitTest(ray, particles, parent)
                    ELSE [kind |-> "skipped", mesh |-> NoHandle]
           next == AfterHitTest(mode, focusTarget, hit)
       IN /\ mode' = next.mode
          /\ focusTarget' = next.focusTarget
          /\ last' = [op |-> "tick", mode |-> mode,
                       decorOnRay |-> \E i \in DOMAIN ray : ray[i].kind = "decor",
                       photoOnRay |-> \E i \in DOMAIN ray : ray[i].kind # "decor",
                       hit |-> hit.kind,
                       targets |-> ParticleTargets(particles, next.mode,
                                                   next.focusTarget)]
    /\ UNCHANGED <<handData, particles, parent, animId, mounted, serviceVars,
                   appVars, ingestVars>>

\* A tick with the ray its cursor casts; no ray is cast outside the
\* raycasting block.
Tick ==
  \E ray \in (IF ShouldHitTest(handData, focusTarget) THEN Rays(parent) ELSE {<<>>}) :
    Animate(ray) /\ UNCHANGED auxVars

\* ------------------------------------------------------------- teardown
\* The frames left by the cleanup's cancelAnimationFrame(animId).
CancelAnimation(fs) == {f \in fs : f.id # animId}

\* The cleanups of the component's effects: cancel the animation frame,
\* stop the hand service, drop the add-photo listener.
Teardown ==
  /\ mounted
  /\ mounted' = FALSE
  /\ frames' = StopFrames(CancelAnimation(frames))
  /\ camera' = StopCamera
  /\ last' = OtherStep
  /\ UNCHANGED <<sceneVars, nextFrameId, animId, handLandmarker, initState,
                 video, loadedFired, videoTime, lastVideoTime, rafId, appVars,
                 ingestVars, auxVars>>

\* ------------------------------------------------------- photo ingestion
\* The batches of at most n images: image k of a session is the k-th URL
\* created in it.
Batches(n) == {[i \in 1..k |-> i] : k \in 1..n}

\* The then-callback of the load effect, given the files loadFilesFromDB
\* resolved with: a non-empty list replaces uploadedImages.
LoadResolves(files) ==
  /\ ~isDbLoaded
  /\ isDbLoaded' = TRUE
  /\ IF Len(files) > 0
       THEN /\ uploadedImages' = files
            /\ effectPending' = TRUE
       ELSE UNCHANGED <<uploadedImages, effectPending>>
  /\ last' = OtherStep
  /\ UNCHANGED <<sceneVars, frameVars, mounted, serviceVars, cameraReady,
                 errorMsg, errorCalls, ingestVars>>

\* loadFilesFromDB resolves with the persisted files (none when the store
\* cannot be opened).
DbLoadCompletes ==
  /\ \E files \in {<<>>} \cup Batches(MaxImages) : LoadResolves(files)
  /\ UNCHANGED auxVars

\* handleFileUpload: the upload control is rendered only while there are no
\* images, the store has been read and no error is shown.
HandleFileUpload ==
  /\ Len(uploadedImages) = 0
  /\ isDbLoaded
  /\ ~errorMsg
  /\ \E files \in Batches(MaxImages - Len(uploadedImages)) :
       uploadedImages' = uploadedImages \o files
  /\ effectPending' = TRUE
  /\ last' = OtherStep
  /\ UNCHANGED <<sceneVars, frameVars, mounted, serviceVars, cameraReady,
                 errorMsg, errorCalls, isDbLoaded, ingestVars, auxVars>>

\* A variant that takes the whole list as new.
NewImages_fromStart(count, images) == 1..Len(images)

\* uploadedImages.slice(processedImagesCount.current), as positions in the
\* list.
NewImages(count, images) == (count + 1)..Len(images)

\* The effect on uploadedImages: starts a decode for every image past
\* processedImagesCount and moves the count to the end of the list.
ImagesEffect ==
  /\ effectPending
  /\ mounted
  /\ effectPending' = FALSE
  /\ LET newImages == NewImages(processedImagesCount, uploadedImages)
     IN IF newImages # {}
          THEN /\ loading' = loading \cup newImages
               /\ processedImagesCount' = Len(uploadedImages)
          ELSE UNCHANGED <<loading, processedImagesCount>>
  /\ last' = OtherStep
  /\ UNCHANGED <<sceneVars, frameVars, mounted, serviceVars, cameraReady,
                 errorMsg, errorCalls, isDbLoaded, uploadedImages, failed>>

UploadEffect == ImagesEffect /\ UNCHANGED auxVars

\* A variant of the handler that attaches the mesh and keeps no particle.
AddPhoto_attachOnly(mesh, parts, par) ==
  IF Len(parts) > 0 /\ par[parts[1].mesh] # NoHandle
    THEN [particles |-> parts,
          parent |-> [par EXCEPT ![mesh] = par[parts[1].mesh]]]
    ELSE [particles |-> parts, parent |-> par]

\* A variant of the handler that takes one photo only.
AddPhoto_firstPhotoOnly(mesh, parts, par) ==
  IF Len(parts) > 0 /\ par[parts[1].mesh] # NoHandle /\ PhotoMeshes(parts) = {}
    THEN [particles |-> Append(parts, [mesh |-> mesh, isPhoto |-> TRUE]),
          parent |-> [par EXCEPT ![mesh] = par[parts[1].mesh]]]
    ELSE [particles |-> parts, parent |-> par]

\* The add-photo handler, given the mesh of the event and the scene graph
\* in which img.onload built it: the particle list and scene graph it leaves.
AddPhoto(mesh, parts, par) ==
  IF Len(parts) > 0 /\ par[parts[1].mesh] # NoHandle
    THEN [particles |-> Append(parts, [mesh |-> mesh, isPhoto |-> TRUE]),
          parent |-> [par EXCEPT ![mesh] = par[parts[1].mesh]]]
    ELSE [particles |-> parts, parent |-> par]

\* img.onload of image k, which has decoded: builds the photo mesh with its frame and hit
\* volume as children and dispatches add-photo, which the handler takes
\* synchronously while its listener is registered.
Onload(k) ==
  /\ k \in loading
  /\ loading' = loading \ {k}
  /\ LET built == [parent EXCEPT ![FrameMesh(k)] = PhotoMesh(k),
                                 ![HitMesh(k)] = PhotoMesh(k)]
         added == IF mounted
                    THEN AddPhoto(PhotoMesh(k), particles, built)
                    ELSE [particles |-> particles, parent |-> built]
     IN /\ particles' = added.particles
        /\ parent' = added.parent
  /\ last' = OtherStep
  /\ UNCHANGED <<mode, focusTarget, handData, frameVars, mounted,
                 serviceVars, appVars, processedImagesCount, failed>>

ImgOnload(k) == Onload(k) /\ UNCHANGED auxVars

\* The decode of image k fails (the file is no image): no onerror handler is
\* set, nothing happens.
ImgError(k) ==
  /\ k \in loading
  /\ loading' = loading \ {k}
  /\ failed' = failed \cup {k}
  /\ last' = OtherStep
  /\ UNCHANGED <<sceneVars, frameVars, mounted, serviceVars, appVars,
                 processedImagesCount, auxVars>>

\* ------------------------------------------------------------ specification
\* The program: every callback of the component, the service and the page.
Next ==
  \/ InitializeResolves
  \/ InitializeRejects
  \/ GetUserMediaResolves
  \/ GetUserMediaRejects
  \/ VideoAdvance
  \/ LoadedData
  \/ PredictFrame
  \/ Tick
  \/ Teardown
  \/ DbLoadCompletes
  \/ HandleFileUpload
  \/ UploadEffect
  \/ \E k \in ImageIds : ImgOnload(k)
  \/ \E k \in ImageIds : ImgError(k)

Spec == Init /\ [][Next]_vars

\* ------------------------------------- the classification, function by function
\* The hands processResult is applied to one at a time: tip coordinates,
\* thumb-to-index distances around the pinch threshold and every combination
\* of fingertip-to-wrist distances around the folding threshold.
ClassifiedHands ==
  [indexX : {20, 50}, indexY : {50, 80}, pinchDist : {4, 5, 6},
   fingerDist : [1..4 -> {14, 15, 16}]]

ClassifiedResults ==
  {[landmarks |-> <<>>]} \cup {[landmarks |-> <<h>>] : h \in ClassifiedHands}

ClassifierInit ==
  /\ Mounted
  /\ field = NoField
  /\ \E result \in ClassifiedResults :
       calc = [input |-> result, done |-> FALSE, output |-> InitialHandData]

\* processResult is called with the detection and hands its sample to
\* onHandData.
Classify ==
  /\ ~calc.done
  /\ LET data == ProcessResult(calc.input)
         next == OnHandData(mode, focusTarget, data)
     IN /\ calc' = [calc EXCEPT !.done = TRUE, !.output = data]
        /\ handData' = LatestSample(handData, data)
        /\ mode' = next.mode
        /\ focusTarget' = next.focusTarget
        /\ last' = SampleStep
  /\ UNCHANGED <<particles, parent, frameVars, mounted, serviceVars, appVars,
                 ingestVars, field>>

ClassifierSpec == ClassifierInit /\ [][Classify]_vars

\* ------------------------------------------------ the particle field's numbers
\* Numbers are fixed-point: scales and pinch distances in hundredths, the x
\* component of positions in hundredths of a world unit, frame deltas in
\* sixtieths of a second; a product is truncated to the unit.
Trunc(n, d) == IF n >= 0 THEN n \div d ELSE -((-n) \div d)

Abs(n) == IF n >= 0 THEN n ELSE -n

Clamp(v, lo, hi) == IF v < lo THEN lo ELSE IF v > hi THEN hi ELSE v

\* The frame deltas clock.getDelta() gives: a frame at 60 Hz, and the half
\* second between two frames of a tab that was in the background.
Deltas == {1, 30}

\* The values smoothedPinch has on entry to the ticks followed here.
SmoothedPinches == {0, 5, 100}

\* The x component of the camera offset (0, 0, 30) in the main group's frame.
CamFrontXs == {0}

\* What the random draws of the particles' creation give.
DecorBaseScales == {80}
DecorTreeXs == {300}
DecorScatterXs == {2000}
PhotoTreeXs == {-200}
PhotoScatterXs == {2500}

\* smoothedPinch += (pinchDistance - smoothedPinch) * 0.1
SmoothPinch(smoothed, pinchDistance) == smoothed + Trunc(pinchDistance - smoothed, 10)

\* A variant without the clamp.
FocusScale_unclamped(pinchVal) == 500 + 12 * pinchVal

\* The focus target's target scale: 5 + clamp(pinchVal, 0, 0.4) * 12.
FocusScale(pinchVal) == 500 + 12 * Clamp(pinchVal, 0, 40)

\* A variant that adds the zoom to the particle's baseScale.
TargetScale_addsToBaseScale(kind, baseScale, pinchVal) ==
  IF kind = "focus" THEN baseScale + 12 * Clamp(pinchVal, 0, 40)
  ELSE IF kind = "dispersed" THEN 0
  ELSE baseScale

\* targetScale of a particle whose target is of the given kind.
TargetScale(kind, baseScale, pinchVal) ==
  IF kind = "focus" THEN FocusScale(pinchVal)
  ELSE IF kind = "dispersed" THEN 0
  ELSE baseScale

\* targetPos.x of a particle whose target is of the given kind.
TargetPos(kind, treePos, scatterPos, camX) ==
  IF kind = "tree" THEN treePos
  ELSE IF kind = "scatter" THEN scatterPos
  ELSE IF kind = "focus" THEN camX
  ELSE Trunc(18 * scatterPos, 10)

LerpSpeed(p) == IF p.isPhoto THEN 6 ELSE 4

\* Vector3.lerp and MathUtils.lerp with alpha = rate * delta.
Lerp(current, target, rate, delta) ==
  current + Trunc((target - current) * rate * delta, 60)

\* The numbers before the first tick: the decorative meshes are at the
\* origin with scale 1, no sample has been delivered.
InitialFields ==
  {[smoothedPinch |-> sp,
    treePos |-> [i \in DecorIds |-> tx],
    scatterPos |-> [i \in DecorIds |-> sx],
    baseScale |-> [i \in DecorIds |-> bs],
    position |-> [i \in DecorIds |-> 0],
    scale |-> [i \in DecorIds |-> 100],
    targetPos |-> [i \in DecorIds |-> 0],
    targetScale |-> [i \in DecorIds |-> 100],
    ticks |-> 0] :
     sp \in SmoothedPinches, tx \in DecorTreeXs, sx \in DecorScatterXs,
     bs \in DecorBaseScales}

\* A variant of the particle update that scales scatterPos itself when it
\* disperses a particle.
FieldAfterTick_scalesInPlace(f, parts, m, focus, hd, delta, camX) ==
  LET pinchVal == SmoothPinch(f.smoothedPinch, hd.pinchDistance)
      scattered ==
        [i \in DOMAIN parts |->
           IF TargetOf(parts[i], m, focus) = "dispersed"
             THEN Trunc(18 * f.scatterPos[i], 10)
             ELSE f.scatterPos[i]]
      tPos ==
        [i \in DOMAIN parts |->
           IF TargetOf(parts[i], m, focus) = "dispersed"
             THEN scattered[i]
             ELSE TargetPos(TargetOf(parts[i], m, focus), f.treePos[i],
                            f.scatterPos[i], camX)]
      tScale ==
        [i \in DOMAIN parts |->
           TargetScale(TargetOf(parts[i], m, focus), f.baseScale[i], pinchVal)]
  IN [f EXCEPT !.smoothedPinch = pinchVal,
               !.scatterPos = scattered,
               !.targetPos = tPos,
               !.targetScale = tScale,
               !.position = [i \in DOMAIN parts |->
                               Lerp(f.position[i], tPos[i], LerpSpeed(parts[i]), delta)],
               !.scale = [i \in DOMAIN parts |-> Lerp(f.scale[i], tScale[i], 5, delta)],
               !.ticks = @ + 1]

\* animate's numbers: smoothedPinch follows the sample's pinch distance, and
\* every particle's mesh moves and scales toward the target of the mode the
\* hit test left.
FieldAfterTick(f, parts, m, focus, hd, delta, camX) ==
  LET pinchVal == SmoothPinch(f.smoothedPinch, hd.pinchDistance)
      tPos ==
        [i \in DOMAIN parts |->
           TargetPos(TargetOf(parts[i], m, focus), f.treePos[i],
                     f.scatterPos[i], camX)]
      tScale ==
        [i \in DOMAIN parts |->
           TargetScale(TargetOf(parts[i], m, focus), f.baseScale[i], pinchVal)]
  IN [f EXCEPT !.smoothedPinch = pinchVal,
               !.targetPos = tPos,
               !.targetScale = tScale,
               !.position = [i \in DOMAIN parts |->
                               Lerp(f.position[i], tPos[i], LerpSpeed(parts[i]), delta)],
               !.scale = [i \in DOMAIN parts |-> Lerp(f.scale[i], tScale[i], 5, delta)],
               !.ticks = @ + 1]

\* The numbers of the photo particle the add-photo handler pushes: its mesh
\* is where img.onload put it, and that place is its scatterPos.
FieldWithPhoto(f, treeX, scatterX) ==
  [f EXCEPT !.treePos = Append(@, treeX),
            !.scatterPos = Append(@, scatterX),
            !.baseScale = Append(@, 100),
            !.position = Append(@, scatterX),
            !.scale = Append(@, 100),
            !.targetPos = Append(@, scatterX),
            !.targetScale = Append(@, 100)]

FieldInit ==
  /\ Ingesting
  /\ field \in InitialFields
  /\ calc = NoCalc

\* The rays of the ticks followed here meet one mesh at most.
FieldRays(par) == {ray \in Rays(par) : Len(ray) <= 1}

\* A tick, with the delta its clock gives.
FieldTick ==
  /\ field.ticks < MaxFieldTicks
  /\ \E ray \in (IF ShouldHitTest(handData, focusTarget)
                   THEN FieldRays(parent) ELSE {<<>>}),
        delta \in Deltas, camX \in CamFrontXs :
       /\ Animate(ray)
       /\ field' = FieldAfterTick(field, particles, mode', focusTarget', handData,
                                  delta, camX)
  /\ UNCHANGED calc

\* onHandData is called with the sample of a detection.
Deliver(result) ==
  /\ LET data == ProcessResult(result)
         next == OnHandData(mode, focusTarget, data)
     IN /\ handData' = LatestSample(handData, data)
        /\ mode' = next.mode
        /\ focusTarget' = next.focusTarget
  /\ last' = SampleStep
  /\ UNCHANGED <<particles, parent, frameVars, mounted, serviceVars, appVars,
                 ingestVars>>

\* The detections delivered here: no hand, a fist, a pinch, and an open hand
\* below and above the aperture that leaves FOCUS.
SlotResults ==
  {r \in DetectResults :
     \/ Len(r.landmarks) = 0
     \/ /\ Len(r.landmarks) > 0
        /\ \/ /\ r.landmarks[1].fingerDist = <<20, 20, 20, 20>>
              /\ r.landmarks[1].pinchDist \in {3, 5, 41}
           \/ /\ r.landmarks[1].fingerDist = <<10, 10, 10, 10>>
              /\ r.landmarks[1].pinchDist = 40}

\* Of these, the ones that move the particle field: no hand, a fist, a
\* pinch, a wide open hand.
FieldResults ==
  {r \in SlotResults : Len(r.landmarks) > 0 => r.landmarks[1].pinchDist # 5}

FieldSample == \E result \in FieldResults : Deliver(result) /\ UNCHANGED auxVars

\* img.onload of image k while the component is mounted.
FieldOnload(k) ==
  /\ Onload(k)
  /\ \E treeX \in PhotoTreeXs, scatterX \in PhotoScatterXs :
       field' = IF Len(particles') > Len(particles)
                  THEN FieldWithPhoto(field, treeX, scatterX)
                  ELSE field
  /\ UNCHANGED calc

FieldNext ==
  \/ \E k \in ImageIds : FieldOnload(k)
  \/ FieldSample
  \/ FieldTick

FieldSpec == FieldInit /\ [][FieldNext]_vars

\* ------------------------------------------------------- the sample slot
\* The history of the slot: the sample last delivered, whether a tick has
\* read it, and the gestures of the samples that were replaced in the slot
\* before any tick read them, since the last sample a tick did read.
InitialSlot == [delivered |-> InitialHandData, unread |-> FALSE, pending |-> {}]

SlotInit ==
  /\ Ingesting
  /\ field = InitialSlot
  /\ calc = NoCalc

SlotSample ==
  \E result \in SlotResults :
    /\ Deliver(result)
    /\ field' = [delivered |-> ProcessResult(result),
                 unread |-> TRUE,
                 pending |-> IF field.unread
                               THEN field.pending \cup {field.delivered.gesture}
                               ELSE {}]
    /\ UNCHANGED calc

SlotTick ==
  /\ \E ray \in (IF ShouldHitTest(handData, focusTarget) THEN Rays(parent) ELSE {<<>>}) :
       Animate(ray)
  /\ field' = [field EXCEPT !.unread = FALSE]
  /\ UNCHANGED calc

SlotNext ==
  \/ \E k \in ImageIds : ImgOnload(k)
  \/ SlotSample
  \/ SlotTick

SlotSpec == SlotInit /\ [][SlotNext]_vars

\* ------------------------------------------------- the photo's rectangle
\* Image widths and heights, in hundreds of pixels; the rectangle's sides
\* are in thousandths of a unit, and 3000 is divisible by each of these.
ImageSides == {1, 2, 3, 4, 5, 6, 8, 10}

\* A variant that gives the shorter side the length 3.
PhotoPlane_shortSideThree(width, height) ==
  IF width < height
    THEN [w |-> 3000, h |-> (3000 * height) \div width]
    ELSE [w |-> (3000 * width) \div height, h |-> 3000]

\* img.onload's dimensions: aspect = width / height, w = 3 and h = 3 / aspect,
\* and for aspect < 1 h = 3 and w = 3 * aspect.
PhotoPlane(width, height) ==
  IF width < height
    THEN [w |-> (3000 * width) \div height, h |-> 3000]
    ELSE [w |-> 3000, h |-> (3000 * height) \div width]

PlaneInit ==
  /\ Mounted
  /\ field = NoField
  /\ \E width \in ImageSides, height \in ImageSides :
       calc = [input |-> [width |-> width, height |-> height],
               done |-> FALSE,
               output |-> [w |-> 0, h |-> 0]]

\* img.onload computes the rectangle of the decoded image.
BuildPlane ==
  /\ ~calc.done
  /\ calc' = [calc EXCEPT !.done = TRUE,
                          !.output = PhotoPlane(calc.input.width, calc.input.height)]
  /\ last' = OtherStep
  /\ UNCHANGED <<sceneVars, frameVars, mounted, serviceVars, appVars,
                 ingestVars, field>>

PlaneSpec == PlaneInit /\ [][BuildPlane]_vars

\* ------------------------------------------------------ the field's rotation
\* Angles are in 1/600 rad, so that 0.1 rad/s over a delta of n sixtieths of
\* a second is n.
\* targetRotY = (handData.x - 0.5) * 3
TargetRotY(hd) == (hd.x - 50) * 18

\* rotationY += (targetRotY - rotationY) * 2.5 * delta
ChaseRotY(rotationY, hd, delta) ==
  rotationY + Trunc((TargetRotY(hd) - rotationY) * 25 * delta, 600)

\* The auto-rotation of the tick: 0.1 * delta in SCATTER with no hand.
AutoRotation(m, hd, delta) ==
  IF m = "SCATTER" /\ hd.gesture = "NONE" THEN delta ELSE 0

\* animate's rotation block: stateRef's rotationY chases the hand, the main
\* group's yaw is set to it, and the auto-rotation is added to the yaw.
RotationAfterTick(f, m, hd, delta) ==
  LET rotationY == ChaseRotY(f.rotationY, hd, delta)
  IN [rotationY |-> rotationY,
      yaw |-> rotationY + AutoRotation(m, hd, delta),
      delta |-> delta]

\* The detections delivered here: those of the sample slot and an open hand
\* to the left of the centre.
RotationResults ==
  SlotResults
    \cup {[landmarks |-> <<[indexX |-> 70, indexY |-> 50, pinchDist |-> 41,
                            fingerDist |-> <<20, 20, 20, 20>>]>>]}

RotationInit ==
  /\ Ingesting
  /\ field = [rotationY |-> 0, yaw |-> 0, delta |-> 0]
  /\ calc = NoCalc

RotationSample ==
  \E result \in RotationResults : Deliver(result) /\ UNCHANGED auxVars

RotationTick ==
  /\ \E ray \in (IF ShouldHitTest(handData, focusTarget)
                   THEN FieldRays(parent) ELSE {<<>>}),
        delta \in Deltas :
       /\ Animate(ray)
       /\ field' = RotationAfterTick(field, mode, handData, delta)
  /\ UNCHANGED calc

RotationNext ==
  \/ \E k \in ImageIds : ImgOnload(k)
  \/ RotationSample
  \/ RotationTick

RotationSpec == RotationInit /\ [][RotationNext]_vars

\* ------------------------------------------------- the field during FOCUS
\* The detection of a pinching hand.
PinchResult ==
  CHOOSE r \in FieldResults :
    Len(r.landmarks) > 0 /\ ProcessResult(r).gesture = "PINCH"

\* The scene after img.onload of image 1 inserted its photo.
SceneWithPhoto ==
  AddPhoto(PhotoMesh(1),
           [i \in DecorIds |-> [mesh |-> DecorMesh(i), isPhoto |-> FALSE]],
           [InitialParent EXCEPT ![FrameMesh(1)] = PhotoMesh(1),
                                 ![HitMesh(1)] = PhotoMesh(1)])

\* The state in which FOCUS has just begun: image 1 has decoded, a pinch
\* was delivered, and the tick that followed hit photo 1 and ran the particle
\* update with it as focus target. The other images are still decoding.
FocusInit ==
  /\ mode = "FOCUS"
  /\ focusTarget = PhotoMesh(1)
  /\ handData = LatestSample(InitialHandData, ProcessResult(PinchResult))
  /\ particles = SceneWithPhoto.particles
  /\ parent = SceneWithPhoto.parent
  /\ frames = {[id |-> 2, cb |-> "animate"]}
  /\ nextFrameId = 3
  /\ animId = 1
  /\ mounted = TRUE
  /\ handLandmarker = FALSE
  /\ initState = "pending"
  /\ video = FALSE
  /\ camera = "idle"
  /\ loadedFired = FALSE
  /\ videoTime = 0
  /\ lastVideoTime = InitialLastVideoTime
  /\ rafId = 0
  /\ cameraReady = FALSE
  /\ errorMsg = FALSE
  /\ errorCalls = 0
  /\ isDbLoaded = TRUE
  /\ uploadedImages = [i \in ImageIds |-> i]
  /\ effectPending = FALSE
  /\ processedImagesCount = MaxImages
  /\ loading = ImageIds \ {1}
  /\ failed = {}
  /\ last = [op |-> "tick", mode |-> "SCATTER", decorOnRay |-> FALSE,
             photoOnRay |-> TRUE, hit |-> "resolved",
             targets |-> ParticleTargets(particles, "FOCUS", PhotoMesh(1))]
  /\ \E f \in InitialFields, treeX \in PhotoTreeXs, scatterX \in PhotoScatterXs,
        delta \in Deltas, camX \in CamFrontXs :
       field = [FieldAfterTick(FieldWithPhoto(f, treeX, scatterX), particles,
                               "FOCUS", PhotoMesh(1), handData, delta, camX)
                  EXCEPT !.ticks = 0]
  /\ calc = NoCalc

FocusSpec == FocusInit /\ [][FieldNext]_vars

\* ------------------------------------------- the hit test, step by step
\* The raycasting block of one tick with the while loop unrolled: calc holds
\* the intersections the raycaster returned, the loop's position and its
\* target variable.
HitDistances == {1, 2}

\* What raycaster.intersectObjects is given to sort: the meshes a ray passes
\* through, each once, with their distances, nearest first; meshes at the
\* same distance come in the order the raycaster returns them.
HitRays(par) ==
  {hits \in UNION {[1..n -> [object : Attached(par), distance : HitDistances]] :
                     n \in 0..(MaxRayLen + 1)} :
     /\ \A i, j \in DOMAIN hits : i # j => hits[i].object # hits[j].object
     /\ \A i, j \in DOMAIN hits : i < j => hits[i].distance <= hits[j].distance}

\* intersectObjects(photos, true) keeps the hits on the photos' subtrees.
Intersections(hits, parts, par) ==
  SelectSeq(hits, LAMBDA h : InSubtree(h.object, PhotoMeshes(parts), par))

\* A variant that starts the walk from the last intersection.
FirstHit_farthest(intersects) == intersects[Len(intersects)].object

\* let target = intersects[0].object
FirstHit(intersects) == intersects[1].object

\* A variant of the loop's condition that stops at an absent parent only.
WalkGuard_untilDetached(target, par) == par[target] # NoHandle

\* The while loop's condition.
WalkGuard(target, par) ==
  par[target] # NoHandle /\ par[target] # MainGroup /\ par[target] # PhotoGroup

NoWalk == [pc |-> "idle", intersects |-> <<>>, target |-> NoHandle]

HitInit ==
  /\ Ingesting
  /\ field = NoField
  /\ calc = NoWalk

HitOnload(k) == calc.pc # "walk" /\ ImgOnload(k)

HitSample ==
  /\ calc.pc # "walk"
  /\ Deliver(PinchResult)
  /\ UNCHANGED auxVars

\* The tick up to the loop: the next frame is requested, the ray is cast,
\* and target is the first intersection's object.
Cast ==
  /\ calc.pc # "walk"
  /\ ShouldHitTest(handData, focusTarget)
  /\ \E f \in frames :
       /\ f.cb = "animate"
       /\ nextFrameId <= MaxFrameId
       /\ frames' = (frames \ {f}) \cup {[id |-> nextFrameId, cb |-> "animate"]}
       /\ nextFrameId' = nextFrameId + 1
  /\ \E hits \in HitRays(parent) :
       LET intersects == Intersections(hits, particles, parent)
       IN calc' = IF Len(intersects) > 0
                    THEN [pc |-> "walk", intersects |-> intersects,
                          target |-> FirstHit(intersects)]
                    ELSE [pc |-> "done", intersects |-> intersects,
                          target |-> NoHandle]
  /\ last' = OtherStep
  /\ UNCHANGED <<sceneVars, animId, mounted, serviceVars, appVars, ingestVars,
                 field>>

\* One iteration of the loop: every branch of its body assigns
\* target.parent to target.
Climb ==
  /\ calc.pc = "walk"
  /\ WalkGuard(calc.target, parent)
  /\ calc' = [calc EXCEPT !.target = parent[calc.target]]
  /\ last' = OtherStep
  /\ UNCHANGED <<sceneVars, frameVars, mounted, serviceVars, appVars,
                 ingestVars, field>>

\* The loop has ended: the particle with target as mesh, if there is one,
\* becomes the focus target.
Find ==
  /\ calc.pc = "walk"
  /\ ~WalkGuard(calc.target, parent)
  /\ LET hit == IF calc.target \in ParticleMeshes(particles)
                  THEN [kind |-> "resolved", mesh |-> calc.target]
                  ELSE [kind |-> "unresolved", mesh |-> NoHandle]
         next == AfterHitTest(mode, focusTarget, hit)
     IN /\ mode' = next.mode
        /\ focusTarget' = next.focusTarget
  /\ calc' = [calc EXCEPT !.pc = "done"]
  /\ last' = OtherStep
  /\ UNCHANGED <<handData, particles, parent, frameVars, mounted, serviceVars,
                 appVars, ingestVars, field>>

HitNext ==
  \/ \E k \in ImageIds : HitOnload(k)
  \/ HitSample
  \/ Cast
  \/ Climb
  \/ Find

\* The loop runs inside one call of animate: once begun, its steps are taken.
HitSpec ==
  HitInit /\ [][HitNext]_vars /\ WF_vars(Climb) /\ WF_vars(Find)

\* -------------------------------------------- appends to uploadedImages
\* The component under a parent that appends to the uploadedImages prop any
\* number of times; field counts the decodes started per image and the
\* appends.
UploadInit ==
  /\ Mounted
  /\ field = [starts |-> [k \in ImageIds |-> 0], appends |-> 0]
  /\ calc = NoCalc

\* setUploadedImages(prev => [...prev, ...newImages])
AppendImages ==
  /\ Len(uploadedImages) < MaxImages
  /\ \E files \in Batches(MaxImages - Len(uploadedImages)) :
       uploadedImages' =
         uploadedImages \o [i \in DOMAIN files |-> Len(uploadedImages) + i]
  /\ effectPending' = TRUE
  /\ field' = [field EXCEPT !.appends = @ + 1]
  /\ last' = OtherStep
  /\ UNCHANGED <<sceneVars, frameVars, mounted, serviceVars, cameraReady,
                 errorMsg, errorCalls, isDbLoaded, ingestVars, calc>>

\* The effect, counting img.src = imageUrl per image.
StartDecodes ==
  /\ ImagesEffect
  /\ field' = [field EXCEPT
                 !.starts = [k \in ImageIds |->
                               IF k \in NewImages(processedImagesCount, uploadedImages)
                                 THEN @[k] + 1 ELSE @[k]]]
  /\ UNCHANGED calc

UploadNext ==
  \/ AppendImages
  \/ StartDecodes
  \/ \E k \in ImageIds : ImgOnload(k)
  \/ \E k \in ImageIds : ImgError(k)
  \/ FieldSample

UploadSpec == UploadInit /\ [][UploadNext]_vars

\* --------------------------------------------------- the loading screen
\* The page from mount on: field holds the stage of loadFilesFromDB, whether
\* the timer of the loading effect is set, and isLoading.
AppInit ==
  /\ Mounted
  /\ field = [db |-> "opening", timer |-> "unset", isLoading |-> TRUE]
  /\ calc = NoCalc

\* indexedDB.open succeeds: loadFilesFromDB starts the transaction and
\* returns the promise of the getAll request.
OpenDbSucceeds ==
  /\ field.db = "opening"
  /\ field' = [field EXCEPT !.db = "reading"]
  /\ last' = OtherStep
  /\ UNCHANGED <<sceneVars, frameVars, mounted, serviceVars, appVars,
                 ingestVars, calc>>

\* indexedDB.open fails: openDB rejects, the catch block returns no files.
OpenDbFails ==
  /\ field.db = "opening"
  /\ LoadResolves(<<>>)
  /\ field' = [field EXCEPT !.db = "done"]
  /\ UNCHANGED calc

\* request.onsuccess: the promise resolves with the stored files.
ReadSucceeds ==
  /\ field.db = "reading"
  /\ \E files \in {<<>>} \cup Batches(MaxImages) : LoadResolves(files)
  /\ field' = [field EXCEPT !.db = "done"]
  /\ UNCHANGED calc

\* The read fails: transaction() throws inside the executor of a promise
\* that is returned without await, or the request raises an error event for
\* which no handler is set. The catch block is not entered and the
\* then-callback of the load effect never runs.
ReadFails ==
  /\ field.db = "reading"
  /\ field' = [field EXCEPT !.db = "failed"]
  /\ last' = OtherStep
  /\ UNCHANGED <<sceneVars, frameVars, mounted, serviceVars, appVars,
                 ingestVars, calc>>

\* The effect on [cameraReady, isDbLoaded] once both are set.
LoadingEffect ==
  /\ cameraReady
  /\ isDbLoaded
  /\ field.timer = "unset"
  /\ field' = [field EXCEPT !.timer = "set"]
  /\ last' = OtherStep
  /\ UNCHANGED <<sceneVars, frameVars, mounted, serviceVars, appVars,
                 ingestVars, calc>>

\* The timer's callback: setIsLoading(false).
TimerFires ==
  /\ field.timer = "set"
  /\ field' = [field EXCEPT !.timer = "fired", !.isLoading = FALSE]
  /\ last' = OtherStep
  /\ UNCHANGED <<sceneVars, frameVars, mounted, serviceVars, appVars,
                 ingestVars, calc>>

AppNext ==
  \/ OpenDbSucceeds
  \/ OpenDbFails
  \/ ReadSucceeds
  \/ ReadFails
  \/ LoadingEffect
  \/ TimerFires
  \/ InitializeResolves
  \/ InitializeRejects
  \/ GetUserMediaResolves
  \/ GetUserMediaRejects
  \/ UploadEffect
  \/ \E k \in ImageIds : ImgOnload(k)

\* Requests are answered, effects and timers run.
AppSpec ==
  /\ AppInit
  /\ [][AppNext]_vars
  /\ WF_vars(OpenDbSucceeds \/ OpenDbFails)
  /\ WF_vars(ReadSucceeds \/ ReadFails)
  /\ WF_vars(LoadingEffect)
  /\ WF_vars(TimerFires)

\* ------------------------------------------------------------------ claims
\* C1: in every state between callbacks, a focus target is set if and only
\* if the mode is FOCUS.
C1_FocusTargetIffFocusMode == (focusTarget # NoHandle) <=> (mode = "FOCUS")

\* A sample has just taken the scene out of FOCUS, and the target is gone.
C1_Witness ==
  /\ last.op = "sample"
  /\ last.mode = "FOCUS"
  /\ mode = "SCATTER"
  /\ focusTarget = NoHandle

\* C2: right after a CLOSED sample is delivered the mode is TREE and no
\* focus target is set, whatever the mode before and the pinch distance.
C2_ClosedSampleYieldsTree ==
  (last.op = "sample" /\ handData.gesture = "CLOSED")
    => (mode = "TREE" /\ focusTarget = NoHandle)

\* A fist with thumb and index together was delivered in FOCUS.
C2_Witness ==
  /\ last.op = "sample"
  /\ handData.gesture = "CLOSED"
  /\ handData.pinchDistance = 3
  /\ last.mode = "FOCUS"
  /\ mode = "TREE"

\* C3: an OPEN sample delivered in FOCUS with pinch distance at most 0.4
\* leaves mode and focus target as they were; every other OPEN sample
\* yields SCATTER with no focus target.
C3_OpenSampleHysteresis ==
  [][(last'.op = "sample" /\ handData'.gesture = "OPEN")
       => IF mode = "FOCUS" /\ handData'.pinchDistance <= 40
            THEN mode' = "FOCUS" /\ focusTarget' = focusTarget
            ELSE mode' = "SCATTER" /\ focusTarget' = NoHandle]_vars

\* An OPEN sample at the boundary 0.4 was delivered in FOCUS and FOCUS holds.
C3_Witness ==
  /\ last.op = "sample"
  /\ handData.gesture = "OPEN"
  /\ handData.pinchDistance = 40
  /\ last.mode = "FOCUS"
  /\ mode = "FOCUS"
  /\ focusTarget # NoHandle

\* C4: from FOCUS with a focus target, every step other than the delivery
\* of a CLOSED sample or of an OPEN sample with pinch distance above 0.4
\* leaves mode and focus target unchanged.
C4_FocusHeldUntilExitSample ==
  [][(/\ mode = "FOCUS"
      /\ focusTarget # NoHandle
      /\ ~(/\ last'.op = "sample"
           /\ \/ handData'.gesture = "CLOSED"
              \/ handData'.gesture = "OPEN" /\ handData'.pinchDistance > 40))
       => (mode' = "FOCUS" /\ focusTarget' = focusTarget)]_vars

\* A tick ran in FOCUS on a PINCH sample with a second photo in the scene,
\* and the focus target held.
C4_Witness ==
  /\ last.op = "tick"
  /\ last.mode = "FOCUS"
  /\ handData.gesture = "PINCH"
  /\ Cardinality(PhotoMeshes(particles)) = 2
  /\ mode = "FOCUS"
  /\ focusTarget # NoHandle

\* C5: the mode becomes FOCUS only in a tick whose latest sample is a PINCH,
\* that starts with no focus target and whose hit test resolves to the mesh
\* of a particle of the collection.
C5_FocusEnteredOnlyByPinchHit ==
  [][(mode' = "FOCUS" /\ mode # "FOCUS")
       => (/\ last'.op = "tick"
           /\ last'.hit = "resolved"
           /\ handData.gesture = "PINCH"
           /\ focusTarget = NoHandle
           /\ focusTarget' \in ParticleMeshes(particles))]_vars

\* A tick has just entered FOCUS from TREE.
C5_Witness ==
  /\ last.op = "tick"
  /\ last.hit = "resolved"
  /\ last.mode = "TREE"
  /\ mode = "FOCUS"

\* C6: a focus target is the mesh of a photo particle of the collection,
\* attached directly under the field group; and a tick whose ray meets no
\* part of a photo never takes the mode to FOCUS.
C6_OnlyPhotosSelectable ==
  /\ focusTarget # NoHandle
       => /\ \E i \in DOMAIN particles :
               particles[i].mesh = focusTarget /\ particles[i].isPhoto
          /\ parent[focusTarget] = MainGroup
  /\ (last.op = "tick" /\ ~last.photoOnRay /\ last.mode # "FOCUS")
       => (mode = last.mode /\ focusTarget = NoHandle)

\* A pinch tick whose ray met a decorative mesh and no photo part found
\* nothing, with a photo in the scene.
C6_Witness ==
  /\ last.op = "tick"
  /\ last.decorOnRay
  /\ ~last.photoOnRay
  /\ last.hit = "none"
  /\ handData.gesture = "PINCH"
  /\ PhotoMeshes(particles) # {}
  /\ mode = last.mode

\* C7: the delivery of a PINCH or NONE sample changes neither the mode nor
\* the focus target nor the particle collection.
C7_PinchAndNoneSamplesKeepMode ==
  [][(last'.op = "sample" /\ handData'.gesture \in {"PINCH", "NONE"})
       => (/\ mode' = mode
           /\ focusTarget' = focusTarget
           /\ particles' = particles)]_vars

\* A NONE sample was delivered in FOCUS.
C7_Witness ==
  /\ last.op = "sample"
  /\ handData.gesture = "NONE"
  /\ last.mode = "FOCUS"
  /\ mode = "FOCUS"

\* C8: a pinch tick whose hit test finds no intersection, or no particle for
\* the hit, leaves the mode as it was and the focus target absent, and gives
\* every particle of the collection its target for that mode.
C8_FailedPinchIsNoOp ==
  (last.op = "tick" /\ last.hit \in {"none", "unresolved"})
    => /\ mode = last.mode
       /\ focusTarget = NoHandle
       /\ DOMAIN last.targets = DOMAIN particles
       /\ \A i \in DOMAIN particles :
            last.targets[i] = (IF last.mode = "TREE" THEN "tree" ELSE "scatter")

\* A pinch tick in TREE missed every photo of a scene that holds one.
C8_Witness ==
  /\ last.op = "tick"
  /\ last.hit = "none"
  /\ last.mode = "TREE"
  /\ PhotoMeshes(particles) # {}
  /\ Len(last.targets) = Len(particles)

\* C9: once the component is torn down, no animation tick runs.
C9_NoTickAfterTeardown == [][~mounted => last'.op # "tick"]_vars

\* C10: once the component is torn down, the camera is not capturing and no
\* hand sample is delivered.
C10_QuietAfterTeardown ==
  [][~mounted' => (camera' # "live" /\ last'.op # "sample")]_vars

\* C16: when initialize() fails, onError is called exactly once, camera-ready
\* is never signalled, the webcam is never started (no video kept, no camera
\* asked for, no inference loop), and initialize() is not run again: the
\* failure is final and no state after it shows a second attempt's effects.
C16_InitFailureReportedOnce ==
  /\ errorCalls <= 1
  /\ (errorCalls = 1) <=> (initState = "rejected")
  /\ initState = "rejected" =>
       /\ errorMsg
       /\ ~cameraReady
       /\ ~handLandmarker
       /\ ~video
       /\ camera = "idle"
       /\ ~loadedFired
       /\ rafId = 0
       /\ \A f \in frames : f.cb # "predictWebcam"

\* initialize() has failed and the program has gone on: the store was read
\* and a tick ran.
C16_Witness ==
  /\ initState = "rejected"
  /\ isDbLoaded
  /\ last.op = "tick"

\* C17: when getUserMedia fails after initialize() succeeded, onError is
\* called and camera-ready is not signalled.
C17_CameraFailureReported ==
  (initState = "resolved" /\ camera = "denied") => (errorMsg /\ ~cameraReady)

\* C19: the inference loop emits at most one sample per distinct video
\* frame. An iteration that sees the video time of the last emitted sample
\* emits nothing and leaves the sample slot, the mode and the focus target
\* alone; an iteration that sees a new video time emits exactly one sample,
\* the classification of one detection, and remembers that time.
C19_OneSamplePerVideoFrame ==
  [][rafId' # rafId =>
       IF videoTime = lastVideoTime
         THEN /\ last'.op = "idle"
              /\ UNCHANGED <<handData, mode, focusTarget, lastVideoTime>>
         ELSE /\ last'.op = "sample"
              /\ \E result \in DetectResults : handData' = ProcessResult(result)
              /\ lastVideoTime' = videoTime]_vars

\* The loop has emitted for the first video frame and for a later one, and
\* its last iteration saw no new frame and emitted nothing.
C19_Witness ==
  /\ last.op = "idle"
  /\ videoTime > 0
  /\ lastVideoTime = videoTime

\* C11: while the component is mounted, the images of the batches whose
\* decode has ended have each given exactly one particle if the decode
\* succeeded and none if it failed, whatever the order in which the decodes
\* ended: the collection holds the decorative particles and one particle per
\* decoded image, each a photo attached under the main group where the
\* pinch ray meets it. A failed decode holds nothing back: with no decode in
\* flight every image that did not fail is in the collection.
C11_DecodedImagesBecomeParticles ==
  mounted =>
    LET done == (1..processedImagesCount) \ loading
    IN /\ failed \subseteq done
       /\ \A k \in ImageIds :
            Cardinality({i \in DOMAIN particles : particles[i].mesh = PhotoMesh(k)})
              = (IF k \in done \ failed THEN 1 ELSE 0)
       /\ Len(particles) = NumDecor + Cardinality(done \ failed)
       /\ \A i \in DOMAIN particles :
            particles[i].mesh.kind = "photo" =>
              /\ particles[i].isPhoto
              /\ parent[particles[i].mesh] = MainGroup

\* A batch of two images has been ingested: the first image's decode failed
\* and the second image is a particle.
C11_Witness ==
  /\ mounted
  /\ processedImagesCount >= 2
  /\ loading = {}
  /\ failed = {1}
  /\ \E i \in DOMAIN particles : particles[i].mesh = PhotoMesh(2)

\* C20: the gesture of a sample is a total function of the detection. It is
\* NONE exactly when no hand was detected, and the sample is then x = 0.5,
\* y = 0.5, pinchDistance = 1. With a hand it is CLOSED exactly when at least
\* three of the four non-thumb fingertips are nearer than 0.15 to the wrist
\* (a tip at 0.15 is not folded), whatever the pinch; otherwise PINCH exactly
\* when the thumb-index distance is below 0.05; otherwise OPEN. The sample
\* carries the hand's thumb-index distance, so a PINCH sample has
\* pinchDistance < 0.05 and an OPEN sample pinchDistance >= 0.05.
C20_GestureIsFunctionOfLandmarks ==
  calc.done =>
    LET result == calc.input
        out == calc.output
    IN /\ out = handData
       /\ out.gesture \in {"NONE", "CLOSED", "PINCH", "OPEN"}
       /\ (out.gesture = "NONE") <=> (Len(result.landmarks) = 0)
       /\ out.gesture = "NONE" =>
            out.x = 50 /\ out.y = 50 /\ out.pinchDistance = 100
       /\ out.gesture = "PINCH" => out.pinchDistance < 5
       /\ out.gesture = "OPEN" => out.pinchDistance >= 5
       /\ Len(result.landmarks) > 0 =>
            LET hand == result.landmarks[1]
                folded == Cardinality({f \in 1..4 : hand.fingerDist[f] < 15})
            IN /\ (out.gesture = "CLOSED") <=> (folded >= 3)
               /\ (out.gesture = "PINCH") <=> (folded < 3 /\ hand.pinchDist < 5)
               /\ (out.gesture = "OPEN") <=> (folded < 3 /\ hand.pinchDist >= 5)
               /\ out.pinchDistance = hand.pinchDist
               /\ out.x = 100 - hand.indexX
               /\ out.y = hand.indexY

\* A hand that pinches with three fingers folded and one tip exactly at the
\* folding threshold has been classified, as CLOSED.
C20_Witness ==
  /\ calc.done
  /\ Len(calc.input.landmarks) > 0
  /\ calc.input.landmarks[1].pinchDist = 4
  /\ calc.input.landmarks[1].fingerDist = <<14, 14, 14, 15>>
  /\ calc.output.gesture = "CLOSED"

\* C12 as stated: in FOCUS the focus particle's target scale exceeds its rest
\* scale (baseScale) by a boost linear in the smoothed pinch clamped to
\* [0, 0.4]: 0 at pinch 0 and exactly 12 at pinch 0.4 or more.
C12_FocusBoostReachesTwelve ==
  last.op = "tick" =>
    \A i \in DOMAIN particles :
      last.targets[i] = "focus" =>
        field.targetScale[i] - field.baseScale[i]
          = 30 * Clamp(field.smoothedPinch, 0, 40)

\* C12, amended: in FOCUS the focus particle's target scale is
\* 5 + 12 * clamp(smoothed pinch, 0, 0.4): linear in the clamped pinch,
\* exactly 5 at pinch 0 or less and exactly 9.8 at pinch 0.4 or more, so the
\* pinch adds between 0 and 4.8 to the constant 5.
C12_FocusScaleLinearInClampedPinch ==
  last.op = "tick" =>
    \A i \in DOMAIN particles :
      last.targets[i] = "focus" =>
        /\ field.targetScale[i] = 500 + 12 * Clamp(field.smoothedPinch, 0, 40)
        /\ field.smoothedPinch <= 0 => field.targetScale[i] = 500
        /\ field.smoothedPinch >= 40 => field.targetScale[i] = 980
        /\ field.targetScale[i] \in 500..980

\* A tick in FOCUS whose smoothed pinch is above the clamp's upper end.
C12_Witness ==
  /\ last.op = "tick"
  /\ field.smoothedPinch > 40
  /\ \E i \in DOMAIN particles :
       last.targets[i] = "focus" /\ field.targetScale[i] = 980

\* C13 as stated: in FOCUS with smoothed pinch 0 the focus particle's target
\* scale is that particle's own baseScale.
C13_FocusScaleStartsAtBaseScale ==
  (last.op = "tick" /\ field.smoothedPinch = 0) =>
    \A i \in DOMAIN particles :
      last.targets[i] = "focus" => field.targetScale[i] = field.baseScale[i]

\* C13, amended: the zoom is added to the constant 5, not to baseScale. In
\* FOCUS with smoothed pinch 0 the focus particle, a photo of baseScale 1,
\* has target scale 5; baseScale is the target scale only in TREE and
\* SCATTER, and the other particles of FOCUS have target scale 0.
C13_FocusScaleStartsAtFive ==
  last.op = "tick" =>
    \A i \in DOMAIN particles :
      /\ (last.targets[i] = "focus" /\ field.smoothedPinch = 0) =>
           (field.targetScale[i] = 500 /\ field.baseScale[i] = 100)
      /\ last.targets[i] \in {"tree", "scatter"} =>
           field.targetScale[i] = field.baseScale[i]
      /\ last.targets[i] = "dispersed" => field.targetScale[i] = 0

\* A tick in FOCUS with smoothed pinch 0.
C13_Witness ==
  /\ last.op = "tick"
  /\ field.smoothedPinch = 0
  /\ \E i \in DOMAIN particles :
       last.targets[i] = "focus" /\ field.targetScale[i] # field.baseScale[i]

\* C14: a tick leaves no particle farther from the tick's target than it
\* was, in position and in scale, and moves none past the target, whatever
\* the frame delta.
C14_TickNeverOvershoots ==
  [][last'.op = "tick" =>
       \A i \in DOMAIN particles :
         LET tPos == field'.targetPos[i]
             tScale == field'.targetScale[i]
         IN /\ Abs(tPos - field'.position[i]) <= Abs(tPos - field.position[i])
            /\ (tPos - field'.position[i]) * (tPos - field.position[i]) >= 0
            /\ Abs(tScale - field'.scale[i]) <= Abs(tScale - field.scale[i])
            /\ (tScale - field'.scale[i]) * (tScale - field.scale[i]) >= 0]_vars

\* C15: the particle collection only grows at its end, and no step (tick,
\* sample, photo insertion) changes a particle or its treePos or scatterPos.
C15_ParticlesAppendOnly ==
  [][/\ Len(particles') >= Len(particles)
     /\ \A i \in DOMAIN particles :
          /\ particles'[i] = particles[i]
          /\ field'.treePos[i] = field.treePos[i]
          /\ field'.scatterPos[i] = field.scatterPos[i]
          /\ field'.baseScale[i] = field.baseScale[i]]_vars

\* A tick in FOCUS has dispersed a decorative particle to 1.8 times its
\* scatterPos in a collection that photos were added to.
C15_Witness ==
  /\ last.op = "tick"
  /\ Len(particles) > NumDecor
  /\ \E i \in DOMAIN particles :
       /\ last.targets[i] = "dispersed"
       /\ field.scatterPos[i] = 2000
       /\ field.targetPos[i] = 3600

\* C18: the sample slot holds the latest delivered sample. Every delivered
\* sample goes into the slot and has the mode rule applied to it as it is
\* delivered; every tick reads the sample delivered last, leaves it in the
\* slot, and runs the hit test exactly when that sample is a PINCH and no
\* focus target is set. So a CLOSED or OPEN replaced before any tick has had
\* its effect on the mode, and a PINCH replaced before any tick is never hit
\* tested.
C18_TickReadsLatestSample ==
  [][/\ last'.op = "sample" =>
          /\ handData' = field'.delivered
          /\ LET data == field'.delivered
             IN IF data.gesture = "CLOSED"
                  THEN mode' = "TREE" /\ focusTarget' = NoHandle
                ELSE IF data.gesture = "OPEN"
                          /\ (mode # "FOCUS" \/ data.pinchDistance > 40)
                  THEN mode' = "SCATTER" /\ focusTarget' = NoHandle
                ELSE UNCHANGED <<mode, focusTarget>>
     /\ last'.op = "tick" =>
          /\ handData = field.delivered
          /\ handData' = handData
          /\ (last'.hit # "skipped") <=>
               (field.delivered.gesture = "PINCH" /\ focusTarget = NoHandle)]_vars

\* A CLOSED and then a PINCH were replaced in the slot before any tick; the
\* tick that followed read the NONE sample that replaced them, found the
\* mode TREE and ran no hit test although a photo was there to hit.
C18_Witness ==
  /\ last.op = "tick"
  /\ field.pending = {"CLOSED", "PINCH"}
  /\ handData.gesture = "NONE"
  /\ last.mode = "TREE"
  /\ mode = "TREE"
  /\ last.hit = "skipped"
  /\ PhotoMeshes(particles) # {}

\* C21 as stated: the photo's rectangle keeps the image's aspect ratio and
\* its shorter side is exactly 3, the longer side 3 * long / short.
C21_ShortSideIsThree ==
  calc.done =>
    LET width == calc.input.width
        height == calc.input.height
        w == calc.output.w
        h == calc.output.h
    IN /\ w * height = h * width
       /\ (IF w <= h THEN w ELSE h) = 3000

\* C21, amended: the photo's rectangle keeps the image's aspect ratio and
\* its longer side is exactly 3; the shorter side is 3 * short / long, so it
\* is 3 for a square image only. Landscape and square images have w = 3,
\* portrait images h = 3.
C21_LongSideIsThree ==
  calc.done =>
    LET width == calc.input.width
        height == calc.input.height
        w == calc.output.w
        h == calc.output.h
    IN /\ w * height = h * width
       /\ (IF w >= h THEN w ELSE h) = 3000
       /\ width >= height => (w = 3000 /\ h * width = 3000 * height)
       /\ width < height => (h = 3000 /\ w * height = 3000 * width)
       /\ (w = h) <=> (width = height)

\* The rectangle of a landscape image twice as wide as high: 3 by 1.5.
C21_Witness ==
  /\ calc.done
  /\ calc.input = [width |-> 4, height |-> 2]
  /\ calc.output = [w |-> 3000, h |-> 1500]

\* C22: a tick in SCATTER whose sample is NONE adds 0.1 * delta to the main
\* group's yaw on top of the hand-driven chase, and the yaw keeps what the
\* earlier ticks added: the new yaw is the old yaw plus the chase's step
\* plus the increment. In every other mode and gesture the increment is 0.
C22_AutoRotationRetained ==
  [][last'.op = "tick" =>
       field'.yaw
         = field.yaw + (field'.rotationY - field.rotationY)
             + (IF mode = "SCATTER" /\ handData.gesture = "NONE"
                  THEN field'.delta ELSE 0)]_vars

\* C23: after a tick whose particle update ran in FOCUS, exactly one
\* particle has focusTarget as its mesh; it has the focus pose (the point in
\* front of the camera) as target position and a positive target scale, and
\* every other particle, photo or decoration, has 1.8 times its scatterPos
\* as target position and 0 as target scale. Photos inserted while FOCUS was
\* active are among the others.
C23_FocusTargets ==
  (last.op = "tick" /\ mode = "FOCUS") =>
    /\ Cardinality({i \in DOMAIN particles : particles[i].mesh = focusTarget}) = 1
    /\ DOMAIN field.targetPos = DOMAIN particles
    /\ \A i \in DOMAIN particles :
         IF particles[i].mesh = focusTarget
           THEN /\ last.targets[i] = "focus"
                /\ field.targetPos[i] \in CamFrontXs
                /\ field.targetScale[i] > 0
           ELSE /\ last.targets[i] = "dispersed"
                /\ field.targetPos[i] = Trunc(18 * field.scatterPos[i], 10)
                /\ field.targetScale[i] = 0

\* A tick has run in FOCUS over a photo that was inserted after FOCUS
\* began, and dispersed it.
C23_Witness ==
  /\ last.op = "tick"
  /\ mode = "FOCUS"
  /\ field.ticks = 1
  /\ Len(particles) = NumDecor + 2
  /\ particles[NumDecor + 2].isPhoto
  /\ field.targetScale[NumDecor + 2] = 0
  /\ field.targetScale[NumDecor + 1] > 0

\* The photo a part belongs to: the mesh img.onload built it under.
OwnerOf(h) == PhotoMesh(h.id)

\* C24: when the hit test has run on a ray with intersections, the focus
\* target is the photo owning the first intersection returned, no returned
\* intersection is nearer than it, and it is the result of the hit test as a
\* function of the ray, the particles and the scene graph.
C24_NearestOwnerIsChosen ==
  (calc.pc = "done" /\ Len(calc.intersects) > 0) =>
    /\ mode = "FOCUS"
    /\ focusTarget = OwnerOf(calc.intersects[1].object)
    /\ \A i \in DOMAIN calc.intersects :
         calc.intersects[1].distance <= calc.intersects[i].distance
    /\ focusTarget
         = HitTest([i \in DOMAIN calc.intersects |-> calc.intersects[i].object],
                   particles, parent).mesh

\* The ray met parts of two photos at the same distance, and the photo of
\* the first one returned is the focus target.
C24_Witness ==
  /\ calc.pc = "done"
  /\ Len(calc.intersects) >= 2
  /\ calc.intersects[1].object.id # calc.intersects[2].object.id
  /\ calc.intersects[1].distance = calc.intersects[2].distance
  /\ focusTarget = PhotoMesh(calc.intersects[1].object.id)

\* C28: the walk from a hit object ends, and it ends at a handle whose
\* parent is mainGroup, photoGroup or absent: for a hit on a photo's plane,
\* frame or hit volume, at that photo's mesh, which is what the hit test
\* resolves the hit to.
C28_WalkEndsAtPhotoRoot ==
  /\ [](\A k \in ImageIds : parent[PhotoMesh(k)] \in {NoHandle, MainGroup})
  /\ []((calc.pc = "done" /\ Len(calc.intersects) > 0) =>
          /\ parent[calc.target] \in {NoHandle, MainGroup, PhotoGroup}
          /\ calc.target = OwnerOf(calc.intersects[1].object)
          /\ calc.target = ResolveRoot(calc.intersects[1].object, parent))
  /\ (calc.pc = "walk" ~> calc.pc = "done")

\* A walk that began at a photo's frame has ended at the photo's mesh.
C28_Witness ==
  /\ calc.pc = "done"
  /\ Len(calc.intersects) > 0
  /\ calc.intersects[1].object.kind = "frame"
  /\ calc.target = PhotoMesh(calc.intersects[1].object.id)

\* C25: under appends to uploadedImages in any batches, no image's decode
\* is started twice, the images whose decode has been started are the first
\* processedImagesCount of the list, and once the effect has run for the
\* latest list these are all of them.
C25_EachDecodeStartedOnce ==
  /\ \A k \in ImageIds :
       /\ field.starts[k] <= 1
       /\ field.starts[k] = 1 <=> k <= processedImagesCount
  /\ processedImagesCount <= Len(uploadedImages)
  /\ ~effectPending => processedImagesCount = Len(uploadedImages)

\* Two appends, the second after a decode of the first had finished, and
\* every image of the list started once.
C25_Witness ==
  /\ field.appends >= 2
  /\ ~effectPending
  /\ 1 \notin loading
  /\ Len(particles) > NumDecor
  /\ \A k \in DOMAIN uploadedImages : field.starts[k] = 1

\* C26: after every step, a photo's mesh is attached (under mainGroup) if
\* and only if it is the mesh of a particle; a step that inserts a particle
\* appends one photo particle whose scatterPos is where its mesh is; and a
\* tick gives a target to every particle of the list, the inserted ones
\* included.
C26_InsertionIsAtomic ==
  [][/\ \A k \in ImageIds :
          /\ parent'[PhotoMesh(k)] # NoHandle
               <=> PhotoMesh(k) \in ParticleMeshes(particles')
          /\ parent'[PhotoMesh(k)] \in {NoHandle, MainGroup}
     /\ Len(particles') # Len(particles) =>
          /\ Len(particles') = Len(particles) + 1
          /\ particles'[Len(particles')].isPhoto
          /\ parent[particles'[Len(particles')].mesh] = NoHandle
          /\ field'.scatterPos[Len(particles')] = field'.position[Len(particles')]
          /\ \A i \in DOMAIN particles : particles'[i] = particles[i]
     /\ last'.op = "tick" =>
          /\ DOMAIN last'.targets = DOMAIN particles'
          /\ DOMAIN field'.targetPos = DOMAIN particles'
          /\ DOMAIN field'.position = DOMAIN particles']_vars

\* A tick has run over a list with an inserted photo, whose mesh is under
\* mainGroup.
C26_Witness ==
  /\ last.op = "tick"
  /\ Len(particles) > NumDecor
  /\ particles[NumDecor + 1].isPhoto
  /\ parent[particles[NumDecor + 1].mesh] = MainGroup
  /\ DOMAIN last.targets = DOMAIN particles

\* C27: the loading screen is gone only when both the camera-ready signal
\* and the completion of the persisted-photo load have occurred, and the
\* load is eventually marked complete, whether the read of the store
\* succeeds or fails.
C27_LoadEventuallyCompletes ==
  /\ [](~field.isLoading => cameraReady /\ isDbLoaded)
  /\ <>isDbLoaded

====
